---- MODULE Spec2Model ----
(***************************************************************************)
(* Model of the ingestion pipeline of backend/scripts/fetch_data.py:       *)
(* category classifier, identity generator, 3x4 partitioner, retrying      *)
(* Overpass fetcher, DNR tabular parser and the deduplicating store.       *)
(*                                                                         *)
(* Text values (tag values, names) are sequences of atoms: a vocabulary    *)
(* word of OSM is one atom (<<"museum">>), free text is a sequence of      *)
(* one-character atoms (<<"Z","o","o">>).  A Python dict is a function     *)
(* whose DOMAIN is the set of keys present.  Coordinates are fixed-point   *)
(* numbers counted in tenths of a degree.                                  *)
(***************************************************************************)
EXTENDS Integers, Sequences, FiniteSets, TLC

VARIABLES
    pc,                                    \* position of the flow of control
    tags, cat,                             \* classifier: input tag set, result
    recA, recB, idA, idB,                  \* identity: two records, their ids
    bb, chunks,                            \* partitioner: region, sub-boxes
    fetch, posted, handled,                \* fetcher: loop state, responses, caller
    df, df_cat, dnr_out,                   \* tabular parser: frame, category, records
    args,                                  \* main: --region/--location, --category
    overpass, dnr_csv,                     \* the upstream: query -> response, key -> CSV
    db, db0,                               \* the store file; its content before run 1
    run,                                   \* main: number of the run
    existing_ids, bboxes, chunk_list, chunk_i, src_i, \* main / fetch_overpass_for_bbox_list locals
    all_attractions, new_items, existing,  \* main / save_combined locals
    log, counts                            \* requests and sleeps; store size per run

\* Python's None
None == "None"

Min(S) == CHOOSE x \in S : \A y \in S : x <= y
Max2(a, b) == IF a >= b THEN a ELSE b
Min2(a, b) == IF a <= b THEN a ELSE b

-----------------------------------------------------------------------------
(* Category registry, fetch_data.py:62-75                                  *)

OSM_CATEGORY_MAP ==
    << [cat |-> "Lighthouses",
        pairs |-> << <<"man_made", "lighthouse">>, <<"tourism", "lighthouse">>,
                     <<"seamark:type", "lighthouse">> >>],
       [cat |-> "Parks & Nature",
        pairs |-> << <<"leisure", "park">>, <<"natural", "wood">>,
                     <<"landuse", "recreation_ground">>,
                     <<"boundary", "protected_area">> >>],
       [cat |-> "Beaches & Lakeshores",
        pairs |-> << <<"natural", "beach">>, <<"leisure", "beach_resort">>,
                     <<"tourism", "beach">> >>],
       [cat |-> "Waterfalls",
        pairs |-> << <<"natural", "waterfall">>, <<"waterway", "waterfall">> >>],
       [cat |-> "Museums & Historic Sites",
        pairs |-> << <<"tourism", "museum">>, <<"historic", "monument">> >>],
       [cat |-> "Public Art & Sculptures",
        pairs |-> << <<"tourism", "artwork">> >>],
       [cat |-> "Breweries & Wineries",
        pairs |-> << <<"craft", "brewery">>, <<"industrial", "brewery">>,
                     <<"amenity", "brewery">> >>],
       [cat |-> "Hiking & Biking Trails",
        pairs |-> << <<"highway", "path">>, <<"route", "hiking">>,
                     <<"route", "bicycle">>, <<"leisure", "track">> >>],
       [cat |-> "Family Fun",
        pairs |-> << <<"tourism", "theme_park">>, <<"tourism", "zoo">>,
                     <<"leisure", "water_park">> >>] >>

Categories == { OSM_CATEGORY_MAP[i].cat : i \in 1..Len(OSM_CATEGORY_MAP) }

\* dict insertion: a key already present keeps its position and takes the
\* new value, a new key is appended
DictPut(d, k, v, c) ==
    IF \E i \in 1..Len(d) : d[i].k = k /\ d[i].v = v
    THEN [i \in 1..Len(d) |->
            IF d[i].k = k /\ d[i].v = v THEN [d[i] EXCEPT !.cat = c] ELSE d[i]]
    ELSE Append(d, [k |-> k, v |-> v, cat |-> c])

RECURSIVE PutPairs(_, _, _)
PutPairs(d, pairs, c) ==
    IF pairs = <<>> THEN d
    ELSE PutPairs(DictPut(d, Head(pairs)[1], Head(pairs)[2], c), Tail(pairs), c)

RECURSIVE BuildLookup(_, _)
BuildLookup(d, entries) ==
    IF entries = <<>> THEN d
    ELSE BuildLookup(PutPairs(d, Head(entries).pairs, Head(entries).cat),
                     Tail(entries))

\* LOOKUP = { (k,v): cat for cat, pairs in OSM_CATEGORY_MAP.items() for k,v in pairs }
\* kept in the dict's iteration (insertion) order
LOOKUP == BuildLookup(<<>>, OSM_CATEGORY_MAP)

-----------------------------------------------------------------------------
(* Text helpers                                                            *)

\* str.lower() on the characters the model uses
LowerChar(c) ==
    CASE c = "Z" -> "z"
      [] c = "O" -> "o"
      [] c = "P" -> "p"
      [] c = "T" -> "t"
      [] OTHER -> c

Lower(s) == [i \in 1..Len(s) |-> LowerChar(s[i])]

\* Python's  sub in s  on sequences of atoms
Contains(s, sub) ==
    \E i \in 0..(Len(s) - Len(sub)) :
        \A j \in 1..Len(sub) : s[i + j] = sub[j]

\* tags.get(k) == v  for a vocabulary word v
Has(d, k, v) == k \in DOMAIN d /\ d[k] = <<v>>

-----------------------------------------------------------------------------
(* detect_category, fetch_data.py:86-109                                   *)

LookupHits(t) == { i \in 1..Len(LOOKUP) : Has(t, LOOKUP[i].k, LOOKUP[i].v) }

InterestingKeys ==
    {"tourism", "leisure", "natural", "historic", "man_made", "highway",
     "route", "waterway"}

\* mutant: the heuristics are tried before the registered pairs
detect_category_heuristics_first(t) ==
    IF DOMAIN t = {} THEN None
    ELSE IF \E v \in {"museum", "gallery", "attraction"} : Has(t, "tourism", v)
         THEN "Museums & Historic Sites"
    ELSE IF Has(t, "natural", "beach") THEN "Beaches & Lakeshores"
    ELSE IF Has(t, "natural", "waterfall") \/ Has(t, "waterway", "waterfall")
         THEN "Waterfalls"
    ELSE IF \/ Contains(Lower(IF "name" \in DOMAIN t THEN t["name"] ELSE <<>>),
                        <<"z", "o", "o">>)
            \/ Has(t, "tourism", "zoo")
         THEN "Family Fun"
    ELSE IF LookupHits(t) # {} THEN LOOKUP[Min(LookupHits(t))].cat
    ELSE IF \E k \in InterestingKeys : k \in DOMAIN t
         THEN IF \E v \in {"theme_park", "attraction"} : Has(t, "tourism", v)
              THEN "Family Fun"
              ELSE "Parks & Nature"
    ELSE None

\* mutant: the museum heuristic does not take tourism=attraction
detect_category_without_attraction(t) ==
    IF DOMAIN t = {} THEN None
    ELSE IF LookupHits(t) # {} THEN LOOKUP[Min(LookupHits(t))].cat
    ELSE IF \E v \in {"museum", "gallery"} : Has(t, "tourism", v)
         THEN "Museums & Historic Sites"
    ELSE IF Has(t, "natural", "beach") THEN "Beaches & Lakeshores"
    ELSE IF Has(t, "natural", "waterfall") \/ Has(t, "waterway", "waterfall")
         THEN "Waterfalls"
    ELSE IF \/ Contains(Lower(IF "name" \in DOMAIN t THEN t["name"] ELSE <<>>),
                        <<"z", "o", "o">>)
            \/ Has(t, "tourism", "zoo")
         THEN "Family Fun"
    ELSE IF \E k \in InterestingKeys : k \in DOMAIN t
         THEN IF \E v \in {"theme_park", "attraction"} : Has(t, "tourism", v)
              THEN "Family Fun"
              ELSE "Parks & Nature"
    ELSE None

detect_category(t) ==
    IF DOMAIN t = {} THEN None
    ELSE IF LookupHits(t) # {} THEN LOOKUP[Min(LookupHits(t))].cat
    ELSE IF \E v \in {"museum", "gallery", "attraction"} : Has(t, "tourism", v)
         THEN "Museums & Historic Sites"
    ELSE IF Has(t, "natural", "beach") THEN "Beaches & Lakeshores"
    ELSE IF Has(t, "natural", "waterfall") \/ Has(t, "waterway", "waterfall")
         THEN "Waterfalls"
    ELSE IF \/ Contains(Lower(IF "name" \in DOMAIN t THEN t["name"] ELSE <<>>),
                        <<"z", "o", "o">>)
            \/ Has(t, "tourism", "zoo")
         THEN "Family Fun"
    ELSE IF \E k \in InterestingKeys : k \in DOMAIN t
         THEN IF \E v \in {"theme_park", "attraction"} : Has(t, "tourism", v)
              THEN "Family Fun"
              ELSE "Parks & Nature"
    ELSE None

-----------------------------------------------------------------------------
(* make_unique_id, fetch_data.py:79-84                                     *)

\* str() of a text value: its atoms joined
RECURSIVE Str(_)
Str(s) == IF s = <<>> THEN "" ELSE Head(s) \o Str(Tail(s))

Abs(x) == IF x < 0 THEN -x ELSE x

\* str() of a float that is a whole number of tenths: 457 -> "45.7"
FormatFloat(x) ==
    (IF x < 0 THEN "-" ELSE "")
        \o ToString(Abs(x) \div 10) \o "." \o ToString(Abs(x) % 10)

\* hashlib.md5(..).hexdigest(), taken as injective on its input string
md5(s) == <<"md5", s>>

TRAILS == "Hiking & Biking Trails"

make_unique_id_always_coords(attr) ==
    md5(Str(attr.name) \o "_" \o attr.type \o "_" \o attr.source
        \o "_" \o FormatFloat(attr.latitude)
        \o "_" \o FormatFloat(attr.longitude))

make_unique_id(attr) ==
    LET base == Str(attr.name) \o "_" \o attr.type \o "_" \o attr.source
    IN  IF attr.type # TRAILS
        THEN md5(base \o "_" \o FormatFloat(attr.latitude)
                      \o "_" \o FormatFloat(attr.longitude))
        ELSE md5(base)

-----------------------------------------------------------------------------
(* BoundingBox and michigan_chunks, fetch_data.py:44-59, 173-181           *)

BoundingBox(min_lat, max_lat, min_lon, max_lon) ==
    [min_lat |-> min_lat, max_lat |-> max_lat,
     min_lon |-> min_lon, max_lon |-> max_lon]

UPPER_PENINSULA == BoundingBox(450, 475, -905, -835)
LOWER_PENINSULA == BoundingBox(417, 459, -870, -824)
ENTIRE_STATE == BoundingBox(417, 475, -905, -824)

\* the grid: range(3) latitude bands, range(4) longitude bands
LatBands == 3
LonBands == 4

\* a float division, rounded to the representable grid (tenths)
Div(a, b) == a \div b

lat_steps(b) ==
    << b.min_lat,
       b.min_lat + Div(b.max_lat - b.min_lat, 3),
       b.min_lat + Div(2 * (b.max_lat - b.min_lat), 3),
       b.max_lat >>

lon_steps(b) ==
    << b.min_lon,
       b.min_lon + Div(b.max_lon - b.min_lon, 4),
       b.min_lon + Div(2 * (b.max_lon - b.min_lon), 4),
       b.min_lon + Div(3 * (b.max_lon - b.min_lon), 4),
       b.max_lon >>

\* mutant: every band reaches up to the region's top edge
chunks_of_overlapping(b) ==
    [n \in 1..(LatBands * LonBands) |->
        LET i == (n - 1) \div LonBands
            j == (n - 1) % LonBands
        IN  BoundingBox(lat_steps(b)[i + 1], lat_steps(b)[LatBands + 1],
                        lon_steps(b)[j + 1], lon_steps(b)[j + 2])]

\* the loops of michigan_chunks over a region b: for i in range(3): for j in range(4)
chunks_of(b) ==
    [n \in 1..(LatBands * LonBands) |->
        LET i == (n - 1) \div LonBands
            j == (n - 1) % LonBands
        IN  BoundingBox(lat_steps(b)[i + 1], lat_steps(b)[i + 2],
                        lon_steps(b)[j + 1], lon_steps(b)[j + 2])]

michigan_chunks == chunks_of(ENTIRE_STATE)

-----------------------------------------------------------------------------
(* JSON values and HTTP responses                                          *)

JNull == [t |-> "null"]
JNum(n) == [t |-> "num", n |-> n]
JStr(x) == [t |-> "str", s |-> x]
JList(x) == [t |-> "list", items |-> x]
JDict(x) == [t |-> "dict", fields |-> x]
EmptyDict == JDict(<<>>)

\* Python truthiness of a decoded JSON value:  if data:
Truthy(j) ==
    CASE j.t = "null" -> FALSE
      [] j.t = "num"  -> j.n # 0
      [] j.t = "str"  -> j.s # <<>>
      [] j.t = "list" -> j.items # <<>>
      [] j.t = "dict" -> DOMAIN j.fields # {}

\* What one POST can come to.  A body is blank text, text that is no JSON,
\* or the serialisation of a JSON value (r.json() gives that value back).
TransportError == [kind |-> "transport_error"]
HttpError == [kind |-> "http", status |-> 500, body |-> [text |-> "blank"]]
BlankBody == [kind |-> "http", status |-> 200, body |-> [text |-> "blank"]]
GarbageBody == [kind |-> "http", status |-> 200, body |-> [text |-> "garbage"]]
JsonBody(j) == [kind |-> "http", status |-> 200, body |-> [text |-> "json", json |-> j]]

\* the try block of fetch_json_overpass (lines 128-132) raises
Raises(resp) ==
    \/ resp.kind = "transport_error"            \* session.post raises
    \/ resp.status >= 400                       \* raise_for_status
    \/ resp.body.text = "blank"                 \* not r.text.strip()
    \/ resp.body.text = "garbage"               \* r.json() raises

-----------------------------------------------------------------------------
(* fetch_json_overpass, fetch_data.py:124-140                              *)

\* retries=3: the default of line 124 and the argument of line 193
RETRIES == 3

\* the loop state before the first attempt
FetchStart == [attempt |-> 1, sleeps |-> <<>>, done |-> FALSE, ret |-> JNull]

\* mutant: backs off after the last attempt as well
FetchStepSleepsLast(st, resp, retries) ==
    IF ~Raises(resp)
    THEN [st EXCEPT !.done = TRUE, !.ret = resp.body.json]
    ELSE IF st.attempt <= retries
         THEN [st EXCEPT !.sleeps = Append(@, 2 ^ st.attempt),
                         !.attempt = @ + 1,
                         !.done = (st.attempt = retries)]
         ELSE [st EXCEPT !.done = TRUE, !.ret = JNull]

\* one iteration of  for attempt in range(1, retries+1)  on the response resp
FetchStep(st, resp, retries) ==
    IF ~Raises(resp)
    THEN [st EXCEPT !.done = TRUE, !.ret = resp.body.json]
    ELSE IF st.attempt < retries
         THEN [st EXCEPT !.sleeps = Append(@, 2 ^ st.attempt),
                         !.attempt = @ + 1]
         ELSE [st EXCEPT !.done = TRUE, !.ret = JNull]

\* the whole call against an endpoint that answers every attempt with resp
RECURSIVE FetchLoop(_, _, _)
FetchLoop(st, resp, retries) ==
    IF st.done THEN st ELSE FetchLoop(FetchStep(st, resp, retries), resp, retries)

fetch_json_overpass(resp) == FetchLoop(FetchStart, resp, RETRIES)

-----------------------------------------------------------------------------
(* parse_overpass_elements, fetch_data.py:142-169                          *)

OSM == "OpenStreetMap"
DNR == "Michigan DNR"

\* el.get("lat") or el.get("center", {}).get("lat")  is not None
HasCoord(el, k) ==
    \/ k \in DOMAIN el /\ el[k] # 0
    \/ "center" \in DOMAIN el /\ k \in DOMAIN el["center"]

\* el.get("lat") or el.get("center", {}).get("lat")
Coord(el, k) ==
    IF k \in DOMAIN el /\ el[k] # 0 THEN el[k] ELSE el["center"][k]

ElTags(el) == IF "tags" \in DOMAIN el THEN el["tags"] ELSE <<>>

\* the element passes every  continue  of the loop
ElKept(el, filter_category) ==
    /\ "name" \in DOMAIN ElTags(el)
    /\ ElTags(el)["name"] # <<>>
    /\ HasCoord(el, "lat")
    /\ HasCoord(el, "lon")
    /\ detect_category(ElTags(el)) # None
    /\ filter_category # None => detect_category(ElTags(el)) = filter_category

ElRecord(el) ==
    [name |-> ElTags(el)["name"],
     latitude |-> Coord(el, "lat"),
     longitude |-> Coord(el, "lon"),
     type |-> detect_category(ElTags(el)),
     source |-> OSM,
     tags |-> ElTags(el)]

RECURSIVE ParseElements(_, _)
ParseElements(els, filter_category) ==
    IF els = <<>> THEN <<>>
    ELSE (IF ElKept(Head(els), filter_category)
          THEN <<ElRecord(Head(els))>> ELSE <<>>)
         \o ParseElements(Tail(els), filter_category)

parse_overpass_elements(data, filter_category) ==
    IF ~Truthy(data) \/ data.t # "dict" \/ "elements" \notin DOMAIN data.fields
    THEN <<>>
    ELSE ParseElements(data.fields["elements"], filter_category)

-----------------------------------------------------------------------------
(* DNR tables: extract_geo_from_row and parse_dnr_source,                  *)
(* fetch_data.py:226-264                                                   *)
(* A data frame is [columns, rows]; a row maps every column to a cell; a   *)
(* cell is NaN, a number (tenths) or a text.                               *)

NaN == [k |-> "nan"]
Num(n) == [k |-> "num", v |-> n]
Text(x) == [k |-> "str", v |-> x]

notna(cell) == cell.k # "nan"

NAME_ALIASES == <<"FACILITY", "Name", "Trail_Name", "NAME", "name">>
LAT_ALIASES == <<"LATITUDE", "Latitude", "lat", "Y">>
LON_ALIASES == <<"LONGITUDE", "Longitude", "lon", "X">>
TAG_COLUMNS == <<"ACRES", "Type", "Length_Miles", "Difficulty", "Surface_Type">>

\* [c for c in aliases if c in df.columns]
Present(aliases, columns) == SelectSeq(aliases, LAMBDA c : c \in columns)

\* str.strip() on a text of one-character atoms
RECURSIVE LStrip(_)
LStrip(s) == IF s # <<>> /\ Head(s) = " " THEN LStrip(Tail(s)) ELSE s

RECURSIVE RStrip(_)
RStrip(s) ==
    IF s # <<>> /\ s[Len(s)] = " " THEN RStrip(SubSeq(s, 1, Len(s) - 1)) ELSE s

Strip(s) == RStrip(LStrip(s))

\* str(cell) of a cell that is not NaN
CellStr(cell) == IF cell.k = "num" THEN <<FormatFloat(cell.v)>> ELSE cell.v

Digits == <<"0", "1", "2", "3", "4", "5", "6", "7", "8", "9">>
IsDigit(c) == \E d \in 1..10 : Digits[d] = c
DigitVal(c) == (CHOOSE d \in 1..10 : Digits[d] = c) - 1

RECURSIVE NatVal(_)
NatVal(s) == IF s = <<>> THEN 0 ELSE 10 * NatVal(SubSeq(s, 1, Len(s) - 1)) + DigitVal(s[Len(s)])

\* the texts float() accepts here: [-]digits[.digit], blanks around it
Unsigned(s) == IF s # <<>> /\ Head(s) = "-" THEN Tail(s) ELSE s

DotAt(s) == { i \in 1..Len(s) : s[i] = "." }

IsFloatText(t) ==
    LET s == Unsigned(Strip(t))
    IN  /\ s # <<>>
        /\ \A i \in 1..Len(s) : IsDigit(s[i]) \/ s[i] = "."
        /\ IsDigit(s[1])
        /\ \/ DotAt(s) = {}
           \/ DotAt(s) = {Len(s) - 1}

FloatOfText(t) ==
    LET s == Unsigned(Strip(t))
        mag == IF DotAt(s) = {} THEN 10 * NatVal(s)
               ELSE 10 * NatVal(SubSeq(s, 1, Len(s) - 2)) + DigitVal(s[Len(s)])
    IN  IF Strip(t)[1] = "-" THEN -mag ELSE mag

\* float(cell) does not raise
Floatable(cell) == cell.k = "num" \/ (cell.k = "str" /\ IsFloatText(cell.v))
Float(cell) == IF cell.k = "num" THEN cell.v ELSE FloatOfText(cell.v)

\* next((row[c] for c in cols if c in row and pd.notna(row[c])), None) is not None
Filled(row, cols) == { i \in 1..Len(cols) : notna(row[cols[i]]) }
FirstFilled(row, cols) == row[cols[Min(Filled(row, cols))]]

\* mutant: reads the first resolved column only
extract_geo_ok_first_column(row, name_cols, lat_cols, lon_cols) ==
    /\ notna(row[name_cols[1]])
    /\ notna(row[lat_cols[1]])
    /\ notna(row[lon_cols[1]])
    /\ Floatable(row[lat_cols[1]])
    /\ Floatable(row[lon_cols[1]])

\* extract_geo_from_row returns a tuple (not None)
extract_geo_ok(row, name_cols, lat_cols, lon_cols) ==
    /\ Filled(row, name_cols) # {}
    /\ Filled(row, lat_cols) # {}
    /\ Filled(row, lon_cols) # {}
    /\ Floatable(FirstFilled(row, lat_cols))
    /\ Floatable(FirstFilled(row, lon_cols))

\* the tuple it returns
extract_geo_from_row(row, name_cols, lat_cols, lon_cols) ==
    [name |-> Strip(CellStr(FirstFilled(row, name_cols))),
     lat |-> Float(FirstFilled(row, lat_cols)),
     lon |-> Float(FirstFilled(row, lon_cols))]

\* k.lower() of the tag columns
LowerColumn(k) ==
    CASE k = "ACRES" -> "acres"
      [] k = "Type" -> "type"
      [] k = "Length_Miles" -> "length_miles"
      [] k = "Difficulty" -> "difficulty"
      [] k = "Surface_Type" -> "surface_type"

RowTags(row, columns) ==
    LET ks == { k \in { TAG_COLUMNS[i] : i \in 1..Len(TAG_COLUMNS) } : k \in columns }
        lower == { LowerColumn(k) : k \in ks }
    IN  [l \in lower |->
            LET k == CHOOSE c \in ks : LowerColumn(c) = l
            IN  IF notna(row[k]) THEN CellStr(row[k]) ELSE <<>>]

RowRecord(row, columns, name_cols, lat_cols, lon_cols, category) ==
    LET geo == extract_geo_from_row(row, name_cols, lat_cols, lon_cols)
    IN  [name |-> geo.name,
         latitude |-> geo.lat,
         longitude |-> geo.lon,
         type |-> category,
         source |-> DNR,
         tags |-> RowTags(row, columns)]

RECURSIVE ParseRows(_, _, _, _, _, _)
ParseRows(rows, columns, name_cols, lat_cols, lon_cols, category) ==
    IF rows = <<>> THEN <<>>
    ELSE (IF extract_geo_ok(Head(rows), name_cols, lat_cols, lon_cols)
          THEN <<RowRecord(Head(rows), columns, name_cols, lat_cols, lon_cols,
                           category)>>
          ELSE <<>>)
         \o ParseRows(Tail(rows), columns, name_cols, lat_cols, lon_cols, category)

parse_dnr_source(d, category) ==
    LET name_cols == Present(NAME_ALIASES, d.columns)
        lat_cols == Present(LAT_ALIASES, d.columns)
        lon_cols == Present(LON_ALIASES, d.columns)
    IN  IF d.rows = <<>> \/ d.columns = {} THEN <<>>
        ELSE IF name_cols = <<>> \/ lat_cols = <<>> \/ lon_cols = <<>> THEN <<>>
        ELSE ParseRows(d.rows, d.columns, name_cols, lat_cols, lon_cols, category)

-----------------------------------------------------------------------------
(* build_overpass_query, fetch_data.py:47-48, 111-122                      *)

\* BoundingBox.to_overpass
to_overpass(b) ==
    FormatFloat(b.min_lat) \o "," \o FormatFloat(b.min_lon) \o ","
        \o FormatFloat(b.max_lat) \o "," \o FormatFloat(b.max_lon)

CATEGORY_TO_PAIRS(category) ==
    (CHOOSE e \in { OSM_CATEGORY_MAP[n] : n \in 1..Len(OSM_CATEGORY_MAP) } :
        e.cat = category).pairs

\* the query: the bounds string and what is asked for inside them
build_overpass_query(bbox, category) ==
    [bbox |-> bbox,
     body |-> IF category # None /\ category \in Categories
              THEN CATEGORY_TO_PAIRS(category)
              ELSE << <<"tourism">>, <<"leisure">>, <<"natural">>, <<"man_made">> >>]

-----------------------------------------------------------------------------
(* Persistence: load_existing_ids, save_combined, fetch_data.py:268-289    *)
(* The store file is missing, holds text that is no JSON, or holds the     *)
(* serialisation of a JSON value.                                          *)

FileMissing == [k |-> "missing"]
FileGarbage == [k |-> "text"]
FileJson(j) == [k |-> "json", json |-> j]

\* evaluating  item["id"] ... if "id" in item  raises for this item
ItemRaises(item) ==
    CASE item.t = "dict" -> FALSE
      [] item.t = "str"  -> Contains(item.s, <<"i", "d">>)
      [] item.t = "list" -> \E n \in 1..Len(item.items) :
                                item.items[n] = JStr(<<"i", "d">>)
      [] OTHER -> TRUE

\* mutant: reads no identity from the store
load_existing_ids_none(file) == {}

load_existing_ids(file) ==
    IF file.k # "json" THEN {}
    ELSE IF file.json.t # "list" THEN {}
    ELSE IF \E n \in 1..Len(file.json.items) : ItemRaises(file.json.items[n])
         THEN {}
    ELSE { file.json.items[n].fields["id"] :
             n \in { m \in 1..Len(file.json.items) :
                       /\ file.json.items[m].t = "dict"
                       /\ "id" \in DOMAIN file.json.items[m].fields } }

\* existing  after lines 279-285
save_read(file) == IF file.k # "json" THEN JList(<<>>) ELSE file.json

\* existing + new_items  raises TypeError
save_raises(ex) == ex.t # "list"

\* the file after line 288
save_write(ex, items) ==
    FileJson(JList(ex.items \o [n \in 1..Len(items) |-> JDict(items[n])]))

-----------------------------------------------------------------------------
(* Deduplication loop of main, fetch_data.py:344-353                       *)

WithId(a) ==
    [k \in DOMAIN a \cup {"id"} |-> IF k = "id" THEN make_unique_id(a) ELSE a[k]]

\* mutant: forgets the identities kept earlier in the batch
RECURSIVE dedupe_no_seen(_, _, _)
dedupe_no_seen(items, ids, seen) ==
    IF items = <<>> THEN <<>>
    ELSE IF make_unique_id(Head(items)) \in ids
         THEN dedupe_no_seen(Tail(items), ids, seen)
         ELSE <<WithId(Head(items))>> \o dedupe_no_seen(Tail(items), ids, seen)

RECURSIVE dedupe(_, _, _)
dedupe(items, ids, seen) ==
    IF items = <<>> THEN <<>>
    ELSE LET a_id == make_unique_id(Head(items))
         IN  IF a_id \in ids \/ a_id \in seen
             THEN dedupe(Tail(items), ids, seen)
             ELSE <<WithId(Head(items))>>
                      \o dedupe(Tail(items), ids, seen \cup {a_id})

-----------------------------------------------------------------------------
(* Selection and sources of main, fetch_data.py:205-209, 306-316           *)

MICHIGAN_BOUNDING_BOXES(region) ==
    CASE region = "upper_peninsula" -> UPPER_PENINSULA
      [] region = "lower_peninsula" -> LOWER_PENINSULA
      [] region = "entire_state" -> ENTIRE_STATE

\* michigan_cities.MICHIGAN_CITIES: one locality, [latitude, longitude]
MICHIGAN_CITIES(location) == [latitude |-> 423, longitude |-> -830]

BboxesOf(a) ==
    IF a.location # None
    THEN IF a.location = "all"
         THEN michigan_chunks
         ELSE LET loc == MICHIGAN_CITIES(a.location)
              IN  << BoundingBox(loc.latitude - 2, loc.latitude + 2,
                                 loc.longitude - 2, loc.longitude + 2) >>
    ELSE << MICHIGAN_BOUNDING_BOXES(a.region) >>

DNR_SOURCES ==
    << [key |-> "parks", cat |-> "Parks & Nature"],
       [key |-> "campgrounds", cat |-> "Family Fun"],
       [key |-> "trails", cat |-> TRAILS] >>

\* load_csv_tolerant: None, or the frame read from the text
CsvFailure == [ok |-> FALSE]
CsvOk(d) == [ok |-> TRUE, df |-> d]

-----------------------------------------------------------------------------
(* Bounded inputs                                                          *)

\* at most this many keys in a generated tag set
MaxTags == 2
\* coordinates of the identity check range over -MaxCoord..MaxCoord tenths
MaxCoord == 1
\* generated regions span up to this many tenths on each axis
MaxSpan == 12
\* a generated data frame has at most this many rows
MaxRows == 2
\* main() is run at most this many times in a row
MaxRuns == 2
\* only the first MaxDataChunks partitions of a run get an answer that is
\* not a transport error
MaxDataChunks == 2

TagKeys ==
    { LOOKUP[n].k : n \in 1..Len(LOOKUP) } \cup {"name", "random_key"}

NameValues ==
    { <<>>, <<"Z", "o", "o">>, <<"P", "i", "e", "r">>, <<"z", "O", "O", "s">> }

TagValues(k) ==
    IF k = "name" THEN NameValues
    ELSE { <<LOOKUP[n].v>> : n \in { m \in 1..Len(LOOKUP) : LOOKUP[m].k = k } }
         \cup (IF k = "tourism" THEN { <<"gallery">>, <<"attraction">> } ELSE {})
         \cup { <<"x">> }

RECURSIVE TagAssignments(_)
TagAssignments(S) ==
    IF S = {} THEN { <<>> }
    ELSE LET k == CHOOSE x \in S : TRUE
         IN  { (k :> v) @@ g : v \in TagValues(k), g \in TagAssignments(S \ {k}) }

\* the tag sets of at most n keys
TagSets(n) ==
    UNION { TagAssignments(S) :
            S \in { T \in SUBSET TagKeys : Cardinality(T) <= n } }

\* records with coordinates of at most c tenths
IdRecords(c) ==
    [name : { <<"P", "i", "e", "r">>, <<"P", "_", "1">> },
     type : { TRAILS, "Museums & Historic Sites", "" },
     source : { OSM, DNR },
     latitude : -c..c,
     longitude : -c..c,
     tags : { <<>>, [route |-> <<"hiking">>] }]

\* the registered regions and the boxes of at most n tenths a side
Regions(n) ==
    { UPPER_PENINSULA, LOWER_PENINSULA, ENTIRE_STATE }
    \cup { BoundingBox(417, 417 + h, -905, -905 + w) : h \in 0..n, w \in 0..n }

\* Overpass elements
Pier == <<"P", "i", "e", "r">>
Path == <<"P", "a", "t", "h">>
ElMuseum ==
    [tags |-> [name |-> Pier, tourism |-> <<"museum">>], lat |-> 457, lon |-> -842]
ElMuseumMoved ==
    [tags |-> [name |-> Pier, tourism |-> <<"museum">>], lat |-> 458, lon |-> -842]
ElTrailA ==
    [tags |-> [name |-> Path, route |-> <<"hiking">>],
     center |-> [lat |-> 450, lon |-> -850]]
ElTrailB ==
    [tags |-> [name |-> Path, route |-> <<"hiking">>],
     center |-> [lat |-> 451, lon |-> -851]]
ElNoName == [tags |-> [tourism |-> <<"museum">>], lat |-> 457, lon |-> -842]
ElUnclassified == [tags |-> [name |-> Pier, random_key |-> <<"x">>], lat |-> 457, lon |-> -842]
ElNoCoords == [tags |-> [name |-> Pier, tourism |-> <<"museum">>]]

Elements(els) == JsonBody(JDict([elements |-> els]))

FailingReplies == { TransportError, HttpError, BlankBody, GarbageBody }

\* what one attempt of the fetcher can be answered with
AttemptReplies ==
    FailingReplies
    \cup { JsonBody(JNull), JsonBody(EmptyDict), JsonBody(JList(<<>>)),
           JsonBody(JDict([remark |-> JStr(<<"b", "u", "s", "y">>)])),
           Elements(<<>>), Elements(<<ElMuseum, ElNoName>>) }

\* what the upstream of a run of main answers a query with, on every attempt
OverpassReplies ==
    { TransportError,
      Elements(<<ElMuseum, ElNoCoords>>),
      Elements(<<ElTrailA, ElMuseum, ElTrailB>>),
      Elements(<<ElMuseumMoved, ElUnclassified>>) }

\* DNR frames
CellsOf(c) ==
    CASE c = "FACILITY" -> { NaN, Text(<<"P", "i", "e", "r">>), Text(<<" ">>) }
      [] c = "Name" -> { NaN, Text(<<" ", "D", "o", "c", "k">>) }
      [] c = "LATITUDE" -> { NaN, Num(457), Text(<<"n", "/", "a">>) }
      [] c = "Y" -> { NaN, Text(<<"4", "6", ".", "0">>) }
      [] c = "LONGITUDE" -> { Num(-842), Text(<<"?">>) }
      [] c = "X" -> { NaN, Num(-830) }
      [] c = "ACRES" -> { NaN, Num(120) }

Schemas ==
    { {"FACILITY", "Name", "Y", "X"},
      {"Name", "LATITUDE", "Y", "LONGITUDE"},
      {"FACILITY", "LATITUDE", "LONGITUDE"},
      {"FACILITY", "LATITUDE"},
      {"Name", "X", "ACRES"},
      {"Y", "LONGITUDE"},
      {} }

RECURSIVE RowAssignments(_)
RowAssignments(S) ==
    IF S = {} THEN { <<>> }
    ELSE LET c == CHOOSE x \in S : TRUE
         IN  { (c :> v) @@ g : v \in CellsOf(c), g \in RowAssignments(S \ {c}) }

\* the frames over the schema S with exactly n rows
DataFrames(S, n) ==
    { [columns |-> S, rows |-> r] : r \in [1..n -> RowAssignments(S)] }

\* frames the DNR upstream of a run of main serves
DfTwoRows ==
    [columns |-> {"FACILITY", "LATITUDE", "LONGITUDE"},
     rows |-> << [FACILITY |-> Text(Path), LATITUDE |-> Num(466), LONGITUDE |-> Num(-852)],
                 [FACILITY |-> Text(Path), LATITUDE |-> Num(467), LONGITUDE |-> Num(-852)] >>]

DnrKeys == { DNR_SOURCES[n].key : n \in 1..Len(DNR_SOURCES) }

\* the DNR upstreams of a run of main: the sources that answer serve the frame
DnrUpstreams ==
    { [k \in DnrKeys |-> IF k \in S THEN CsvOk(DfTwoRows) ELSE CsvFailure] :
        S \in { {}, {"trails"}, DnrKeys } }

\* what main can be started with
Selections ==
    { [location |-> None, region |-> r] :
        r \in {"upper_peninsula", "lower_peninsula", "entire_state"} }
    \cup { [location |-> l, region |-> None] : l \in {"all", "Detroit"} }

CategoryArgs == { None, TRAILS }

ArgSets == { [location |-> x.location, region |-> x.region, category |-> c] :
               x \in Selections, c \in CategoryArgs }

\* a record as an earlier run stored it
Stored(el) == JDict(WithId(ElRecord(el)))

StoreContents ==
    { FileMissing, FileGarbage,
      FileJson(JDict([version |-> JNum(1)])),
      FileJson(JNum(5)),
      FileJson(JList(<<>>)),
      FileJson(JList(<<JNum(1)>>)),
      FileJson(JList(<<Stored(ElMuseum)>>)),
      FileJson(JList(<<JDict([name |-> Pier])>>)) }

-----------------------------------------------------------------------------
(* State                                                                   *)

clsVars == <<tags, cat>>
idVars == <<recA, recB, idA, idB>>
gridVars == <<bb, chunks>>
fetchVars == <<fetch, posted, handled>>
dnrVars == <<df, df_cat, dnr_out>>
mainVars ==
    <<args, overpass, dnr_csv, db, db0, run, existing_ids, bboxes, chunk_list,
      chunk_i, src_i, all_attractions, new_items, existing, log, counts>>

vars == <<pc, clsVars, idVars, gridVars, fetchVars, dnrVars, mainVars>>

\* the parts of the state a specification does not use
IdleCls == tags = <<>> /\ cat = None
IdleId == recA = <<>> /\ recB = <<>> /\ idA = <<>> /\ idB = <<>>
IdleGrid == bb = ENTIRE_STATE /\ chunks = <<>>
IdleFetch == fetch = FetchStart /\ posted = <<>> /\ handled = <<>>
IdleDnr == df = [columns |-> {}, rows |-> <<>>] /\ df_cat = None /\ dnr_out = <<>>
IdleMain ==
    /\ args = [location |-> None, region |-> None, category |-> None]
    /\ overpass = <<>> /\ dnr_csv = <<>>
    /\ db = FileMissing /\ db0 = FileMissing
    /\ run = 0
    /\ existing_ids = {} /\ bboxes = <<>> /\ chunk_list = <<>>
    /\ chunk_i = 0 /\ src_i = 0
    /\ all_attractions = <<>> /\ new_items = <<>> /\ existing = JList(<<>>)
    /\ log = <<>> /\ counts = <<>>

-----------------------------------------------------------------------------
(* The classifier applied to a tag set                                     *)

InitClassify ==
    /\ pc = "classify"
    /\ tags \in TagSets(MaxTags)
    /\ cat = None
    /\ IdleId /\ IdleGrid /\ IdleFetch /\ IdleDnr /\ IdleMain

Classify ==
    /\ pc = "classify"
    /\ cat' = detect_category(tags)
    /\ pc' = "classified"
    /\ UNCHANGED <<tags, idVars, gridVars, fetchVars, dnrVars, mainVars>>

NextClassify == Classify

SpecClassify == InitClassify /\ [][NextClassify]_vars

-----------------------------------------------------------------------------
(* The identity of two records that agree on name, type and source         *)

InitIdentity ==
    /\ pc = "identify"
    /\ recA \in IdRecords(MaxCoord)
    /\ recB \in { [recA EXCEPT !.latitude = la, !.longitude = lo, !.tags = t] :
                    la \in -MaxCoord..MaxCoord, lo \in -MaxCoord..MaxCoord,
                    t \in { <<>>, [route |-> <<"hiking">>] } }
    /\ idA = <<>> /\ idB = <<>>
    /\ IdleCls /\ IdleGrid /\ IdleFetch /\ IdleDnr /\ IdleMain

Identify ==
    /\ pc = "identify"
    /\ idA' = make_unique_id(recA)
    /\ idB' = make_unique_id(recB)
    /\ pc' = "identified"
    /\ UNCHANGED <<recA, recB, clsVars, gridVars, fetchVars, dnrVars, mainVars>>

NextIdentity == Identify

SpecIdentity == InitIdentity /\ [][NextIdentity]_vars

-----------------------------------------------------------------------------
(* The partitioner applied to a region                                     *)

InitGrid ==
    /\ pc = "partition"
    /\ bb \in Regions(MaxSpan)
    /\ chunks = <<>>
    /\ IdleCls /\ IdleId /\ IdleFetch /\ IdleDnr /\ IdleMain

Partition ==
    /\ pc = "partition"
    /\ chunks' = chunks_of(bb)
    /\ pc' = "partitioned"
    /\ UNCHANGED <<bb, clsVars, idVars, fetchVars, dnrVars, mainVars>>

NextGrid == Partition

SpecGrid == InitGrid /\ [][NextGrid]_vars

-----------------------------------------------------------------------------
(* One call of fetch_json_overpass, attempt by attempt, and its caller     *)
(* (fetch_data.py:193-199)                                                 *)

InitFetch ==
    /\ pc = "fetching"
    /\ fetch = FetchStart
    /\ posted = <<>>
    /\ handled = <<>>
    /\ IdleCls /\ IdleId /\ IdleGrid /\ IdleDnr /\ IdleMain

\* session.post answers resp; the loop body runs on it
Attempt ==
    /\ pc = "fetching"
    /\ \E resp \in AttemptReplies :
        /\ fetch' = FetchStep(fetch, resp, RETRIES)
        /\ posted' = Append(posted, resp)
    /\ pc' = IF fetch'.done THEN "returned" ELSE "fetching"
    /\ UNCHANGED <<handled, clsVars, idVars, gridVars, dnrVars, mainVars>>

\* if data: parse_overpass_elements(data)  else: "no data for chunk"
CallerHandles ==
    /\ pc = "returned"
    /\ handled' = IF Truthy(fetch.ret)
                  THEN <<"parsed", parse_overpass_elements(fetch.ret, None)>>
                  ELSE <<"no data">>
    /\ pc' = "handled"
    /\ UNCHANGED <<fetch, posted, clsVars, idVars, gridVars, dnrVars, mainVars>>

NextFetch == Attempt \/ CallerHandles

SpecFetch == InitFetch /\ [][NextFetch]_vars

-----------------------------------------------------------------------------
(* parse_dnr_source applied to a data frame                                *)

InitDnr ==
    /\ pc = "parse"
    /\ \E S \in Schemas, n \in 0..MaxRows : df \in DataFrames(S, n)
    /\ df_cat \in { DNR_SOURCES[n].cat : n \in 1..Len(DNR_SOURCES) }
    /\ dnr_out = <<>>
    /\ IdleCls /\ IdleId /\ IdleGrid /\ IdleFetch /\ IdleMain

ParseDnr ==
    /\ pc = "parse"
    /\ dnr_out' = parse_dnr_source(df, df_cat)
    /\ pc' = "parsed"
    /\ UNCHANGED <<df, df_cat, clsVars, idVars, gridVars, fetchVars, mainVars>>

NextDnr == ParseDnr

SpecDnr == InitDnr /\ [][NextDnr]_vars

-----------------------------------------------------------------------------
(* main, run after run on one store and one upstream, fetch_data.py:293-357 *)

\* the query main builds for the bounding box b
QueryOf(b, a) == build_overpass_query(to_overpass(b), a.category)

\* the upstream of the selection a: the n-th partition's query is answered
\* with h[n], partitions past the domain of h with a transport error
UpstreamOf(a, h) ==
    [q \in { QueryOf(BboxesOf(a)[n], a) : n \in 1..Len(BboxesOf(a)) } |->
        LET n == CHOOSE m \in 1..Len(BboxesOf(a)) : QueryOf(BboxesOf(a)[m], a) = q
        IN  IF n \in DOMAIN h THEN h[n] ELSE TransportError]

Init ==
    /\ pc = "start"
    /\ run = 1
    /\ args \in ArgSets
    /\ \E h \in [1..Min2(MaxDataChunks, Len(BboxesOf(args))) -> OverpassReplies] :
          overpass = UpstreamOf(args, h)
    /\ dnr_csv \in DnrUpstreams
    /\ db \in StoreContents
    /\ db0 = db
    /\ existing_ids = {} /\ bboxes = <<>> /\ chunk_list = <<>>
    /\ chunk_i = 0 /\ src_i = 0
    /\ all_attractions = <<>> /\ new_items = <<>> /\ existing = JList(<<>>)
    /\ log = <<>> /\ counts = <<>>
    /\ IdleCls /\ IdleId /\ IdleGrid /\ IdleFetch /\ IdleDnr

\* bboxes[:1] if test_mode else bboxes   (lines 324, 186-187)
ChunkList(boxes, ids) ==
    IF ids = {} /\ Len(boxes) > 1 THEN SubSeq(boxes, 1, 1) ELSE boxes

\* lines 306-324: the boxes of the selection, the identities of the store
Start ==
    /\ pc = "start"
    /\ bboxes' = BboxesOf(args)
    /\ existing_ids' = load_existing_ids(db)
    /\ chunk_list' = ChunkList(bboxes', existing_ids')
    /\ chunk_i' = 1
    /\ src_i' = 1
    /\ all_attractions' = <<>>
    /\ new_items' = <<>>
    /\ log' = <<>>
    /\ pc' = "osm"
    /\ UNCHANGED <<args, overpass, dnr_csv, db, db0, run, existing, counts,
                   clsVars, idVars, gridVars, fetchVars, dnrVars>>

\* what a fetched value adds to the results:  if data: parse_overpass_elements
Parsed(data, category) ==
    IF Truthy(data) THEN parse_overpass_elements(data, category) ELSE <<>>

\* one iteration of the loop of fetch_overpass_for_bbox_list (lines 189-200)
FetchChunk ==
    /\ pc = "osm"
    /\ Len(bboxes) > 1
    /\ LET b == chunk_list[chunk_i]
           r == fetch_json_overpass(overpass[QueryOf(b, args)])
       IN  /\ all_attractions' = all_attractions \o Parsed(r.ret, args.category)
           /\ log' = log \o << [op |-> "post", bbox |-> to_overpass(b),
                                posts |-> r.attempt, backoff |-> r.sleeps],
                               [op |-> "sleep", seconds |-> 1] >>
    /\ chunk_i' = chunk_i + 1
    /\ pc' = IF chunk_i = Len(chunk_list) THEN "dnr" ELSE "osm"
    /\ UNCHANGED <<args, overpass, dnr_csv, db, db0, run, existing_ids, bboxes,
                   chunk_list, src_i, new_items, existing, counts,
                   clsVars, idVars, gridVars, fetchVars, dnrVars>>

\* the single-box branch of main (lines 327-332)
FetchSingle ==
    /\ pc = "osm"
    /\ Len(bboxes) = 1
    /\ LET b == bboxes[1]
           r == fetch_json_overpass(overpass[QueryOf(b, args)])
       IN  /\ all_attractions' = all_attractions \o Parsed(r.ret, args.category)
           /\ log' = Append(log, [op |-> "post", bbox |-> to_overpass(b),
                                  posts |-> r.attempt, backoff |-> r.sleeps])
    /\ pc' = "dnr"
    /\ UNCHANGED <<args, overpass, dnr_csv, db, db0, run, existing_ids, bboxes,
                   chunk_list, chunk_i, src_i, new_items, existing, counts,
                   clsVars, idVars, gridVars, fetchVars, dnrVars>>

\* one iteration of the loop over DNR_SOURCES (lines 335-342)
LoadDnr ==
    /\ pc = "dnr"
    /\ LET s == DNR_SOURCES[src_i]
           reply == dnr_csv[s.key]
           parsed == IF reply.ok THEN parse_dnr_source(reply.df, s.cat) ELSE <<>>
           wanted == IF args.category # None
                     THEN SelectSeq(parsed, LAMBDA p : p.type = args.category)
                     ELSE parsed
       IN  /\ all_attractions' = all_attractions \o wanted
           /\ log' = Append(log, [op |-> "csv", key |-> s.key])
    /\ src_i' = src_i + 1
    /\ pc' = IF src_i = Len(DNR_SOURCES) THEN "dedupe" ELSE "dnr"
    /\ UNCHANGED <<args, overpass, dnr_csv, db, db0, run, existing_ids, bboxes,
                   chunk_list, chunk_i, new_items, existing, counts,
                   clsVars, idVars, gridVars, fetchVars, dnrVars>>

\* lines 344-353
Dedupe ==
    /\ pc = "dedupe"
    /\ new_items' = dedupe(all_attractions, existing_ids, {})
    /\ pc' = "save_read"
    /\ UNCHANGED <<args, overpass, dnr_csv, db, db0, run, existing_ids, bboxes,
                   chunk_list, chunk_i, src_i, all_attractions, existing, log,
                   counts, clsVars, idVars, gridVars, fetchVars, dnrVars>>

\* save_combined reads the file (lines 279-285)
SaveRead ==
    /\ pc = "save_read"
    /\ existing' = save_read(db)
    /\ pc' = "save_write"
    /\ UNCHANGED <<args, overpass, dnr_csv, db, db0, run, existing_ids, bboxes,
                   chunk_list, chunk_i, src_i, all_attractions, new_items, log,
                   counts, clsVars, idVars, gridVars, fetchVars, dnrVars>>

\* save_combined concatenates and writes (lines 286-289); the TypeError of
\* the concatenation is caught nowhere and ends the run
SaveWrite ==
    /\ pc = "save_write"
    /\ IF save_raises(existing)
       THEN /\ pc' = "crashed"
            /\ UNCHANGED <<db, counts>>
       ELSE /\ db' = save_write(existing, new_items)
            /\ counts' = Append(counts, Len(existing.items) + Len(new_items))
            /\ pc' = "done"
    /\ UNCHANGED <<args, overpass, dnr_csv, db0, run, existing_ids, bboxes,
                   chunk_list, chunk_i, src_i, all_attractions, new_items,
                   existing, log, clsVars, idVars, gridVars, fetchVars, dnrVars>>

\* the script is started again, on the same store and upstream
NextRun ==
    /\ pc = "done"
    /\ run < MaxRuns
    /\ run' = run + 1
    /\ pc' = "start"
    /\ UNCHANGED <<args, overpass, dnr_csv, db, db0, existing_ids, bboxes,
                   chunk_list, chunk_i, src_i, all_attractions, new_items,
                   existing, log, counts,
                   clsVars, idVars, gridVars, fetchVars, dnrVars>>

Next ==
    \/ Start
    \/ FetchChunk
    \/ FetchSingle
    \/ LoadDnr
    \/ Dedupe
    \/ SaveRead
    \/ SaveWrite
    \/ NextRun

Spec == Init /\ [][Next]_vars

-----------------------------------------------------------------------------
(* A second run of the script saving while the first is between its load   *)
(* and its save: the store is one file, nothing locks it                   *)

\* the record the second run found
ElOther ==
    [tags |-> [name |-> <<"D", "o", "c", "k">>, tourism |-> <<"zoo">>],
     lat |-> 440, lon |-> -860]

\* save_combined of the second run (lines 279-288): it reads the file as it
\* is now and writes it back with its record appended
OtherRunSaves ==
    /\ run = 1
    /\ pc \in {"osm", "dnr", "dedupe", "save_read", "save_write"}
    /\ ~save_raises(save_read(db))
    /\ Len(save_read(db).items) = Len(save_read(db0).items)
    /\ db' = save_write(save_read(db), << WithId(ElRecord(ElOther)) >>)
    /\ UNCHANGED <<pc, args, overpass, dnr_csv, db0, run, existing_ids, bboxes,
                   chunk_list, chunk_i, src_i, all_attractions, new_items,
                   existing, log, counts,
                   clsVars, idVars, gridVars, fetchVars, dnrVars>>

NextRace ==
    \/ Next
    \/ OtherRunSaves

SpecRace == Init /\ [][NextRace]_vars

-----------------------------------------------------------------------------
(* Properties of the classifier, the identity and the partitioner          *)

\* the categories of the registered pairs that occur in the tag set t
RegisteredCats(t) ==
    { OSM_CATEGORY_MAP[n].cat :
        n \in { m \in 1..Len(OSM_CATEGORY_MAP) :
                  \E q \in 1..Len(OSM_CATEGORY_MAP[m].pairs) :
                      Has(t, OSM_CATEGORY_MAP[m].pairs[q][1],
                             OSM_CATEGORY_MAP[m].pairs[q][2]) } }

\* C3: detect_category returns one of the nine categories or None for every
\* tag set; when the tag set holds a registered pair the result is the
\* category of a registered pair it holds, whatever the heuristics or the
\* fallback would say; the empty mapping and {random_key: x} give None,
\* {tourism: museum} gives Museums & Historic Sites and {natural: beach}
\* gives Beaches & Lakeshores.
C3_ClassifierTotalPriority ==
    pc = "classified" =>
        /\ cat \in Categories \cup {None}
        /\ RegisteredCats(tags) # {} => cat \in RegisteredCats(tags)
        /\ DOMAIN tags = {} => cat = None
        /\ (DOMAIN tags = {"tourism"} /\ tags["tourism"] = <<"museum">>)
              => cat = "Museums & Historic Sites"
        /\ (DOMAIN tags = {"natural"} /\ tags["natural"] = <<"beach">>)
              => cat = "Beaches & Lakeshores"
        /\ (DOMAIN tags = {"random_key"} /\ tags["random_key"] = <<"x">>)
              => cat = None

\* a registered pair (leisure=park) beside a value the museum heuristic
\* would take (tourism=attraction): the pair decides
C3_Witness ==
    /\ pc = "classified"
    /\ Has(tags, "tourism", "attraction")
    /\ Has(tags, "leisure", "park")
    /\ cat = "Parks & Nature"

\* C4: the identity depends on name, type, source and coordinates only
\* (records that agree on them get one identity, whatever their tags); for
\* Hiking & Biking Trails it does not depend on the coordinates; for every
\* other type records that differ in latitude or longitude get different
\* identities.  (recA and recB always agree on name, type and source.)
C4_IdentityAndCoordinates ==
    pc = "identified" =>
        /\ (recA.latitude = recB.latitude /\ recA.longitude = recB.longitude)
              => idA = idB
        /\ recA.type = TRAILS => idA = idB
        /\ (recA.type # TRAILS /\ (recA.latitude # recB.latitude
                                   \/ recA.longitude # recB.longitude))
              => idA # idB

\* two trail records at different coordinates with one identity
C4_Witness ==
    /\ pc = "identified"
    /\ recA.type = TRAILS
    /\ recA.latitude # recB.latitude
    /\ idA = idB

\* the open rectangles of two boxes do not meet
InteriorsDisjoint(x, y) ==
    \/ Max2(x.min_lat, y.min_lat) >= Min2(x.max_lat, y.max_lat)
    \/ Max2(x.min_lon, y.min_lon) >= Min2(x.max_lon, y.max_lon)

\* C5: the partitioner returns 12 sub-boxes in row-major order (latitude
\* bands outer, longitude bands inner), each with min <= max on both axes,
\* pairwise with disjoint interiors, adjacent ones sharing their edge (no
\* gap), bands of one axis equal up to the rounding of the division, and
\* the extreme bounds of the 12 equal to the bounds of the region.
C5_GridPartition ==
    pc = "partitioned" =>
        /\ Len(chunks) = 12
        /\ \A n \in 1..12 :
              /\ chunks[n].min_lat <= chunks[n].max_lat
              /\ chunks[n].min_lon <= chunks[n].max_lon
        /\ \A n \in 1..12, m \in 1..12 :
              n # m => InteriorsDisjoint(chunks[n], chunks[m])
        \* row-major: the 4 boxes of a row share the latitude band, the 3
        \* boxes of a column share the longitude band
        /\ \A r \in 0..2, c \in 0..3 :
              /\ chunks[4 * r + c + 1].min_lat = chunks[4 * r + 1].min_lat
              /\ chunks[4 * r + c + 1].max_lat = chunks[4 * r + 1].max_lat
              /\ chunks[4 * r + c + 1].min_lon = chunks[c + 1].min_lon
              /\ chunks[4 * r + c + 1].max_lon = chunks[c + 1].max_lon
        \* no gap: a band starts where the one before it ends
        /\ \A r \in 0..1 : chunks[4 * r + 1].max_lat = chunks[4 * (r + 1) + 1].min_lat
        /\ \A c \in 0..2 : chunks[c + 1].max_lon = chunks[c + 2].min_lon
        \* the union's bounds are the region's
        /\ chunks[1].min_lat = bb.min_lat /\ chunks[9].max_lat = bb.max_lat
        /\ chunks[1].min_lon = bb.min_lon /\ chunks[4].max_lon = bb.max_lon
        /\ \A n \in 1..12 :
              /\ bb.min_lat <= chunks[n].min_lat /\ chunks[n].max_lat <= bb.max_lat
              /\ bb.min_lon <= chunks[n].min_lon /\ chunks[n].max_lon <= bb.max_lon
        \* equal bands, up to one unit of rounding
        /\ \A r \in 0..2, q \in 0..2 :
              (chunks[4 * r + 1].max_lat - chunks[4 * r + 1].min_lat)
                - (chunks[4 * q + 1].max_lat - chunks[4 * q + 1].min_lat) <= 1
        /\ \A c \in 1..4, q \in 1..4 :
              (chunks[c].max_lon - chunks[c].min_lon)
                - (chunks[q].max_lon - chunks[q].min_lon) <= 1

\* the state's region cut in 12, the second row starting where the first ends
C5_Witness ==
    /\ pc = "partitioned"
    /\ bb = ENTIRE_STATE
    /\ Len(chunks) = 12
    /\ chunks[1].max_lat = chunks[5].min_lat
    /\ chunks[1].max_lat > bb.min_lat
    /\ chunks[12].max_lat = 475 /\ chunks[12].max_lon = -824

-----------------------------------------------------------------------------
(* Properties of the retrying fetcher                                      *)

AllFailed == \A n \in 1..Len(posted) : Raises(posted[n])

\* C2: with retries=3 a call never posts more than 3 times and posts nothing
\* after an attempt that succeeded; before every further attempt it has
\* slept 2^attempt seconds (2, then 4); when every attempt failed it has
\* posted exactly 3 times, slept 2 s and 4 s, and returns None; otherwise
\* it returns what the first successful attempt decoded.
C2_ThreeAttemptsBackoff ==
    /\ Len(posted) <= 3
    /\ \A n \in 1..(Len(posted) - 1) : Raises(posted[n])
    /\ \A n \in 1..Len(fetch.sleeps) : fetch.sleeps[n] = 2 ^ n
    /\ pc = "fetching" =>
          /\ AllFailed
          /\ Len(posted) < 3
          /\ Len(fetch.sleeps) = Len(posted)
    /\ pc \in {"returned", "handled"} =>
          /\ Len(posted) >= 1
          /\ Len(fetch.sleeps) = Len(posted) - 1
          /\ AllFailed =>
                /\ Len(posted) = 3
                /\ fetch.sleeps = <<2, 4>>
                /\ fetch.ret = JNull
          /\ ~AllFailed => fetch.ret = posted[Len(posted)].body.json

\* three failed attempts of three different kinds, then the failure signal
C2_Witness ==
    /\ pc = "returned"
    /\ Len(posted) = 3
    /\ posted[1] = TransportError /\ posted[2] = BlankBody /\ posted[3] = GarbageBody
    /\ fetch.sleeps = <<2, 4>>
    /\ fetch.ret = JNull

\* C8: a call ends either with a successful attempt, whose result the
\* caller parses as an element list, or with the no-data signal, given only
\* after every attempt failed: no successful attempt (success status,
\* non-empty body, decodable JSON) gives a result equal to the failure
\* signal or one the caller handles as "no data".
C8_SuccessIsNeverNoData ==
    pc = "handled" =>
        /\ ~AllFailed => (fetch.ret # JNull /\ handled[1] = "parsed")
        /\ handled = <<"no data">> => AllFailed

-----------------------------------------------------------------------------
(* Properties of the tabular parser                                        *)

Geo(recs) ==
    [n \in 1..Len(recs) |->
        <<recs[n].name, recs[n].latitude, recs[n].longitude>>]

Resolvable(aliases, columns) == \E n \in 1..Len(aliases) : aliases[n] \in columns

\* the first alias of the list that is a column of the schema
Resolved(aliases, columns) ==
    aliases[Min({ n \in 1..Len(aliases) : aliases[n] \in columns })]

AllResolvable(d) ==
    /\ Resolvable(NAME_ALIASES, d.columns)
    /\ Resolvable(LAT_ALIASES, d.columns)
    /\ Resolvable(LON_ALIASES, d.columns)

\* the claim as stated: one column per role, the same for every row
OneColumnRowOk(row, columns) ==
    /\ notna(row[Resolved(NAME_ALIASES, columns)])
    /\ notna(row[Resolved(LAT_ALIASES, columns)])
    /\ notna(row[Resolved(LON_ALIASES, columns)])
    /\ Floatable(row[Resolved(LAT_ALIASES, columns)])
    /\ Floatable(row[Resolved(LON_ALIASES, columns)])

OneColumnGeo(d) ==
    IF ~AllResolvable(d) THEN <<>>
    ELSE LET kept == SelectSeq(d.rows, LAMBDA row : OneColumnRowOk(row, d.columns))
         IN  [n \in 1..Len(kept) |->
                <<Strip(CellStr(kept[n][Resolved(NAME_ALIASES, d.columns)])),
                  Float(kept[n][Resolved(LAT_ALIASES, d.columns)]),
                  Float(kept[n][Resolved(LON_ALIASES, d.columns)])>>]

\* C10 as stated: each role is read from the first alias present in the
\* schema, the same column for every row; a source lacking a role yields
\* nothing; a row whose cell in a resolved column is absent, or whose
\* latitude/longitude is no number, is skipped and the others are kept.
C10_OneColumnPerRole ==
    pc = "parsed" => Geo(dnr_out) = OneColumnGeo(df)

\* the aliases of a role whose column exists and is filled in this row
Usable(row, aliases, columns) ==
    { n \in 1..Len(aliases) : aliases[n] \in columns /\ notna(row[aliases[n]]) }

UsedCell(row, aliases, columns) == row[aliases[Min(Usable(row, aliases, columns))]]

PerRowOk(row, columns) ==
    /\ Usable(row, NAME_ALIASES, columns) # {}
    /\ Usable(row, LAT_ALIASES, columns) # {}
    /\ Usable(row, LON_ALIASES, columns) # {}
    /\ Floatable(UsedCell(row, LAT_ALIASES, columns))
    /\ Floatable(UsedCell(row, LON_ALIASES, columns))

PerRowGeo(d) ==
    IF ~AllResolvable(d) THEN <<>>
    ELSE LET kept == SelectSeq(d.rows, LAMBDA row : PerRowOk(row, d.columns))
         IN  [n \in 1..Len(kept) |->
                <<Strip(CellStr(UsedCell(kept[n], NAME_ALIASES, d.columns))),
                  Float(UsedCell(kept[n], LAT_ALIASES, d.columns)),
                  Float(UsedCell(kept[n], LON_ALIASES, d.columns))>>]

\* C10 amended: each role is read, row by row, from the first alias of the
\* list that is a column of the schema and whose cell in that row is not
\* missing; a source lacking a role yields nothing; a row is skipped when a
\* role has no filled alias column in it or when the latitude/longitude
\* cell so chosen is no number, and the other rows are still processed.
C10_FirstFilledAliasPerRow ==
    pc = "parsed" =>
        /\ Geo(dnr_out) = PerRowGeo(df)
        /\ \A n \in 1..Len(dnr_out) :
              dnr_out[n].type = df_cat /\ dnr_out[n].source = DNR

\* two rows, the first skipped for its missing latitude, the second read
\* from the second name alias because its FACILITY cell is missing
C10_Witness ==
    /\ pc = "parsed"
    /\ df.columns = {"FACILITY", "Name", "Y", "X"}
    /\ Len(df.rows) = 2
    /\ df.rows[1]["Y"] = NaN
    /\ df.rows[2]["FACILITY"] = NaN
    /\ Len(dnr_out) = 1
    /\ dnr_out[1].name = <<"D", "o", "c", "k">>
    /\ dnr_out[1].latitude = 460

-----------------------------------------------------------------------------
(* Properties of the runs of main                                          *)

IdOf(n) == make_unique_id(all_attractions[n])

\* the candidates whose identity is neither in the loaded set nor the
\* identity of an earlier candidate of the batch
FirstSeen ==
    { n \in 1..Len(all_attractions) :
        /\ IdOf(n) \notin existing_ids
        /\ \A m \in 1..(n - 1) : IdOf(m) # IdOf(n) }

\* the k-th of them, in batch order
NthFirstSeen(k) ==
    CHOOSE n \in FirstSeen : Cardinality({ m \in FirstSeen : m <= n }) = k

\* the store began missing, as an empty file or as an empty array
BeganEmpty == db0 \in { FileMissing, FileGarbage, FileJson(JList(<<>>)) }

StoreItems == IF db.k = "json" /\ db.json.t = "list" THEN db.json.items ELSE <<>>

\* C6: once the batch of a run is filtered, the records kept are exactly
\* the candidates whose identity is not in the set loaded at the start of
\* the run and not the identity of an earlier candidate of the batch, in
\* batch order and each carrying its identity; and in every state of every
\* run on a store that began missing or empty, the records of the store
\* all carry an identity and no two carry the same.
C6_DedupInvariant ==
    /\ pc \in {"save_read", "save_write", "done", "crashed"} =>
          /\ Len(new_items) = Cardinality(FirstSeen)
          /\ \A k \in 1..Len(new_items) :
                new_items[k] = WithId(all_attractions[NthFirstSeen(k)])
    /\ BeganEmpty =>
          /\ \A n \in 1..Len(StoreItems) :
                StoreItems[n].t = "dict" /\ "id" \in DOMAIN StoreItems[n].fields
          /\ \A n \in 1..Len(StoreItems), m \in 1..Len(StoreItems) :
                n # m => StoreItems[n].fields["id"] # StoreItems[m].fields["id"]

\* a second run on a store that began missing: one candidate is dropped for
\* the loaded identities, one for an earlier candidate of the batch, and
\* one is kept
C6_Witness ==
    /\ pc = "done"
    /\ run = 2
    /\ db0 = FileMissing
    /\ new_items # <<>>
    /\ \E n \in 1..Len(all_attractions) : IdOf(n) \in existing_ids
    /\ \E n \in 1..Len(all_attractions), m \in 1..Len(all_attractions) :
          m < n /\ IdOf(m) = IdOf(n) /\ IdOf(n) \notin existing_ids
    /\ Len(StoreItems) >= 2

\* the store file holds no array of record objects
Corrupt(file) ==
    \/ file.k # "json"
    \/ file.json.t # "list"
    \/ \E n \in 1..Len(file.json.items) : file.json.items[n].t # "dict"

\* C1: when main has run twice on the same selection, category filter and
\* upstream, the second run adds no record: its new_items is empty and the
\* store is as long after the second run as after the first.  Stated for
\* the stores the claim names first, a missing one and an array of records.
C1_SecondRunAddsNothing ==
    (pc = "done" /\ run = 2 /\ (db0 = FileMissing \/ ~Corrupt(db0))) =>
        /\ new_items = <<>>
        /\ counts[2] = counts[1]

\* C7: a first run on a store that is missing, not decodable, or no array
\* of record objects treats it as empty: it loads no identity, it ends
\* without an exception, and the store it writes is the new batch appended
\* to an empty collection.
C7_CorruptStoreIsEmptyStore ==
    (run = 1 /\ Corrupt(db0)) =>
        /\ pc # "start" => existing_ids = {}
        /\ pc # "crashed"
        /\ pc = "done" => db = save_write(JList(<<>>), new_items)

\* C9: once the Overpass phase of a run over N > 1 partitions is over, one
\* query was posted for each of the N partitions, in list order, each
\* followed by the pacing sleep of one second, whatever the store held; and
\* once the tabular phase is over every DNR source was attempted, in order.
C9_EveryPartitionQueried ==
    (pc \notin {"start", "osm"} /\ Len(bboxes) > 1) =>
        /\ Len(log) >= 2 * Len(bboxes)
        /\ \A n \in 1..Len(bboxes) :
              /\ log[2 * n - 1].op = "post"
              /\ log[2 * n - 1].bbox = to_overpass(bboxes[n])
              /\ log[2 * n] = [op |-> "sleep", seconds |-> 1]
        /\ pc # "dnr" =>
              /\ Len(log) = 2 * Len(bboxes) + Len(DNR_SOURCES)
              /\ \A k \in 1..Len(DNR_SOURCES) :
                    log[2 * Len(bboxes) + k] = [op |-> "csv", key |-> DNR_SOURCES[k].key]


\* C11: the run reads the store once, at its start, and writes it once, at
\* its end: whatever a second run writes in between, the collection the
\* run writes is the collection the store held when the run started,
\* followed by the run's new records, and the identities it filtered with
\* are those of that same collection.
C11_WritesWhatItLoadedAtStart ==
    (run = 1 /\ pc = "done" /\ (db0 = FileMissing \/ ~Corrupt(db0))) =>
        /\ existing_ids = load_existing_ids(db0)
        /\ db = save_write(save_read(db0), new_items)

\* C12: every record parse_dnr_source returns has a name of at least one
\* character, whatever the name cells hold (missing, empty or blank).
C12_NameNonEmpty ==
    pc = "parsed" => \A n \in 1..Len(dnr_out) : Len(dnr_out[n].name) >= 1

\* the tag set t gets past the registered pairs and the four heuristics and
\* holds one of the keys of the broad fallback (lines 91-105)
ReachesFallback(t) ==
    /\ DOMAIN t # {}
    /\ LookupHits(t) = {}
    /\ ~ \E v \in {"museum", "gallery", "attraction"} : Has(t, "tourism", v)
    /\ ~Has(t, "natural", "beach")
    /\ ~(Has(t, "natural", "waterfall") \/ Has(t, "waterway", "waterfall"))
    /\ ~Contains(Lower(IF "name" \in DOMAIN t THEN t["name"] ELSE <<>>),
                 <<"z", "o", "o">>)
    /\ ~Has(t, "tourism", "zoo")
    /\ \E k \in InterestingKeys : k \in DOMAIN t

\* C13: the Family Fun branch of the broad fallback is never taken: a tag
\* set that reaches the fallback has tourism neither theme_park nor
\* attraction and is classified Parks & Nature; a tag set with
\* tourism=attraction is resolved by a registered pair it holds or by the
\* museum heuristic, one with tourism=theme_park by a registered pair.
C13_FallbackNeverFamilyFun ==
    pc = "classified" =>
        /\ ReachesFallback(tags) =>
              /\ ~Has(tags, "tourism", "theme_park")
              /\ ~Has(tags, "tourism", "attraction")
              /\ cat = "Parks & Nature"
        /\ Has(tags, "tourism", "attraction") =>
              cat \in RegisteredCats(tags) \cup {"Museums & Historic Sites"}
        /\ Has(tags, "tourism", "theme_park") => cat \in RegisteredCats(tags)

\* a tag set with an unregistered tourism value falls through to the
\* fallback and gets its default
C13_Witness ==
    /\ pc = "classified"
    /\ "tourism" \in DOMAIN tags
    /\ ReachesFallback(tags)
    /\ cat = "Parks & Nature"

=============================================================================
